---- MODULE Spec2Model ----
(***************************************************************************)
(* Model of the chained argument parser (type argv, interface Args).       *)
(*                                                                         *)
(* A Go string is a sequence of one-character strings.  An argv value is a *)
(* record; its fields args, flags, options, parameters and namedParameters *)
(* are held by value, because every write to them in the source is made on *)
(* a fresh clone().  The fields consumed and errors are Go slices that the *)
(* source also writes without cloning (Chop, ChopSlice, append in Expect*  *)
(* and Validate), so they are references into a memory of backing arrays:  *)
(* consumed is the index of an array in consumedMem, errors is a slice     *)
(* header [arr, len] over an array of errorsMem whose length is its cap.   *)
(*                                                                         *)
(* states is the list of argv values the caller holds (the value returned  *)
(* by Load and by each call so far); calls is the log of the calls that    *)
(* produced them, with their other return values.                          *)
(*                                                                         *)
(* The free functions (Param, Flag, Option, OptionInt) and the             *)
(* constructors take a Go                                                  *)
(* slice of the caller: array is the backing array of the caller's         *)
(* argument list, slices the slice headers [lo, hi] over it that the       *)
(* caller holds (the list itself and each list a call returned), results   *)
(* the log of those calls.  The chained specifications leave these three   *)
(* empty, and the specifications of the free functions and constructors    *)
(* leave the four above empty.                                             *)
(***************************************************************************)
EXTENDS Integers, Sequences, FiniteSets, TLC

VARIABLES states, calls, consumedMem, errorsMem, array, slices, results

vars == <<states, calls, consumedMem, errorsMem, array, slices, results>>

\* Longest token list given to Load.
MaxLen == 2
\* Number of argv values the caller holds (Load's result and each call's).
MaxStates == 3
\* Longest argument list given to a free function or to a constructor.
MaxArgs == 3
\* Number of calls of free functions, or of constructors, on one list.
MaxCalls == 2

\* ------------------------------------------------------------------ strings
Dash == <<"-">>
DashDash == <<"-", "-">>
Key == <<"k", "e", "y">>
Id == <<"i", "d">>
K == <<"k">>
Cmd == <<"c", "m", "d">>
Val == <<"v">>

\* The tokens the argument lists are made of: "--key", "-k", "v".
Tokens == {DashDash \o Key, Dash \o K, Val}

\* (name, alts) pairs given to the flag and option declarations.
Decls == {<<Key, <<Id, K>>>>, <<K, <<>>>>}

\* Names given to AllowParamNamed / ExpectParamNamed.
ParamNames == {Cmd}

RECURSIVE SeqsUpTo(_, _)
SeqsUpTo(S, n) ==
  IF n = 0 THEN {<<>>}
  ELSE LET shorter == SeqsUpTo(S, n - 1)
       IN shorter \cup {Append(s, x) : s \in {t \in shorter : Len(t) = n - 1}, x \in S}

TokenLists == SeqsUpTo(Tokens, MaxLen)

\* strings.HasPrefix(s, prefix)
HasPrefix(s, prefix) ==
  Len(s) >= Len(prefix) /\ SubSeq(s, 1, Len(prefix)) = prefix

\* s[n:]
SliceFrom(s, n) == SubSeq(s, n + 1, Len(s))

\* ------------------------------------------------------------------ errors
\* The zero value of an unwritten slot of an error array.
NilError == <<"nil">>
FlagNotFound(name) == <<"Flag", name, "was expected and not found.">>
OptionNotFound(name) == <<"Option", name, "was expected and not found.">>
NoMoreArguments == <<"No more arguments to consume.">>
NotConsumed(count) == <<count, "arguments were not properly consumed.">>

\* ------------------------------------------------------------------ memory
\* The memory: M.c the consumed arrays, M.e the error arrays.
Mem == [c |-> consumedMem, e |-> errorsMem]

EmptyMap == [x \in {} |-> 0]
MapPut(m, k, v) == [x \in DOMAIN m \cup {k} |-> IF x = k THEN v ELSE m[x]]

\* append(slice, e) on a slice of errors: writes in place when the backing
\* array has room, else moves to a new array of doubled capacity.
append(M, slice, e) ==
  LET old == M.e[slice.arr]
      cap == Len(old)
  IN IF slice.len < cap
     THEN [M |-> [M EXCEPT !.e[slice.arr][slice.len + 1] = e],
           slice |-> [arr |-> slice.arr, len |-> slice.len + 1]]
     ELSE LET newcap == IF cap = 0 THEN 1 ELSE 2 * cap
              new == [i \in 1..newcap |->
                        IF i <= slice.len THEN old[i]
                        ELSE IF i = slice.len + 1 THEN e ELSE NilError]
          IN [M |-> [M EXCEPT !.e = Append(M.e, new)],
              slice |-> [arr |-> Len(M.e) + 1, len |-> slice.len + 1]]

\* Load(args): the initial argv and the memory it allocates.
Load(args) ==
  [M |-> [c |-> <<[i \in 1..Len(args) |-> FALSE]>>,
          e |-> <<[i \in 1..Len(args) |-> NilError]>>],
   out |-> [args |-> args,
            consumed |-> 1,
            errors |-> [arr |-> 1, len |-> 0],
            flags |-> EmptyMap,
            options |-> EmptyMap,
            parameters |-> <<>>,
            namedParameters |-> EmptyMap]]

\* clone without the copies: the result shares the receiver's arrays.
cloneShares(M, orig) == [M |-> M, out |-> orig]

\* argv.clone: new consumed and error arrays (cap = len), maps and lists copied.
clone(M, orig) ==
  [M |-> [c |-> Append(M.c, M.c[orig.consumed]),
          e |-> Append(M.e, SubSeq(M.e[orig.errors.arr], 1, orig.errors.len))],
   out |-> [orig EXCEPT !.consumed = Len(M.c) + 1,
                        !.errors = [arr |-> Len(M.e) + 1, len |-> orig.errors.len]]]

\* ------------------------------------------------------------------ reading
\* What a state holds, read through its slices.
Consumed(M, s) == M.c[s.consumed]
Errors(M, s) == SubSeq(M.e[s.errors.arr], 1, s.errors.len)
Unconsumed(M, s) == {i \in 1..Len(s.args) : ~Consumed(M, s)[i]}

\* ------------------------------------------------------------------ getFlag
\* The test of getFlag's inner loop for one argument and one name.
flagMatches(arg, n) ==
  IF Len(n) = 1
  THEN HasPrefix(arg, Dash) /\ SliceFrom(arg, 1) = n
  ELSE HasPrefix(arg, DashDash) /\ SliceFrom(arg, 2) = n

\* getFlag's inner loop (for i, arg := range out.args) for the name n, from
\* index i on.  present is the function's result variable: it is not reset
\* between names.  at is the index whose marker was set, 0 when none.
RECURSIVE flagArgs(_, _, _, _, _)
flagArgs(args, n, i, consumed, present) ==
  IF i > Len(args) THEN [consumed |-> consumed, present |-> present, at |-> 0]
  ELSE IF consumed[i] THEN flagArgs(args, n, i + 1, consumed, present)
  ELSE LET p == present \/ flagMatches(args[i], n)
       IN IF p
          THEN [consumed |-> [consumed EXCEPT ![i] = TRUE], present |-> TRUE, at |-> i]
          ELSE flagArgs(args, n, i + 1, consumed, p)

\* getFlag's outer loop (for _, n := range names), from the k-th name on.
\* marked collects the indices whose marker was set.
RECURSIVE flagNames(_, _, _, _, _, _)
flagNames(args, names, k, consumed, present, marked) ==
  IF k > Len(names)
  THEN [consumed |-> consumed, present |-> present, marked |-> marked]
  ELSE LET r == flagArgs(args, names[k], 1, consumed, present)
       IN flagNames(args, names, k + 1, r.consumed, r.present,
                    IF r.at = 0 THEN marked ELSE marked \cup {r.at})

\* getFlag that records the flag only when it is present.
getFlagOnlyPresent(M, chain, name, alts) ==
  LET c == clone(M, chain)
      r == flagNames(chain.args, <<name>> \o alts, 1, c.M.c[c.out.consumed], FALSE, {})
  IN [M |-> [c.M EXCEPT !.c[c.out.consumed] = r.consumed],
      out |-> IF r.present THEN [c.out EXCEPT !.flags = MapPut(@, name, TRUE)]
              ELSE c.out,
      present |-> r.present,
      marked |-> r.marked]

\* getFlag without the clone: it writes the markers and the flags of the
\* structure it was called on.
getFlagInPlace(M, chain, name, alts) ==
  LET r == flagNames(chain.args, <<name>> \o alts, 1, M.c[chain.consumed], FALSE, {})
  IN [M |-> [M EXCEPT !.c[chain.consumed] = r.consumed],
      out |-> [chain EXCEPT !.flags = MapPut(@, name, r.present)],
      present |-> r.present,
      marked |-> r.marked]

\* getFlag that never sets a flag recorded as true back to false.
getFlagKeepsTrue(M, chain, name, alts) ==
  LET c == clone(M, chain)
      r == flagNames(chain.args, <<name>> \o alts, 1, c.M.c[c.out.consumed], FALSE, {})
      was == name \in DOMAIN chain.flags /\ chain.flags[name]
  IN [M |-> [c.M EXCEPT !.c[c.out.consumed] = r.consumed],
      out |-> [c.out EXCEPT !.flags = MapPut(@, name, r.present \/ was)],
      present |-> r.present,
      marked |-> r.marked]

\* argv.getFlag: always works on a clone; records present under name.
getFlag(M, chain, name, alts) ==
  LET c == clone(M, chain)
      r == flagNames(chain.args, <<name>> \o alts, 1, c.M.c[c.out.consumed], FALSE, {})
  IN [M |-> [c.M EXCEPT !.c[c.out.consumed] = r.consumed],
      out |-> [c.out EXCEPT !.flags = MapPut(@, name, r.present)],
      present |-> r.present,
      marked |-> r.marked]

\* ------------------------------------------------------------------ getOption
\* The test without the one-character case: every name takes two dashes.
optionMatchesLong(args, i, n) ==
  HasPrefix(args[i], DashDash) /\ SliceFrom(args[i], 2) = n /\ Len(args) > i

\* The test of getOption's inner loop for the argument at (1-based) index i.
optionMatches(args, i, n) ==
  IF Len(n) = 1
  THEN HasPrefix(args[i], Dash) /\ SliceFrom(args[i], 1) = n /\ Len(args) > i
  ELSE HasPrefix(args[i], DashDash) /\ SliceFrom(args[i], 2) = n /\ Len(args) > i

\* getOption's inner loop for the name n, from index i on: the index of the
\* first unconsumed argument that passes the test, 0 when none.
RECURSIVE optionArgs(_, _, _, _)
optionArgs(args, n, i, consumed) ==
  IF i > Len(args) THEN 0
  ELSE IF consumed[i] THEN optionArgs(args, n, i + 1, consumed)
  ELSE IF optionMatches(args, i, n) THEN i
  ELSE optionArgs(args, n, i + 1, consumed)

\* getOption's outer loop from the k-th name on: stops at the first name found.
RECURSIVE optionNames(_, _, _, _)
optionNames(args, names, k, consumed) ==
  IF k > Len(names) THEN 0
  ELSE LET i == optionArgs(args, names[k], 1, consumed)
       IN IF i # 0 THEN i ELSE optionNames(args, names, k + 1, consumed)

\* getOption that records a declared option that was not found, with an
\* empty value.
getOptionRecordsAbsent(M, chain, name, alts) ==
  LET i == optionNames(chain.args, <<name>> \o alts, 1, M.c[chain.consumed])
      c == clone(M, chain)
  IN IF i = 0
     THEN [M |-> c.M, out |-> [c.out EXCEPT !.options = MapPut(@, name, <<>>)],
           val |-> <<>>, found |-> FALSE, at |-> 0]
     ELSE [M |-> [c.M EXCEPT !.c[c.out.consumed][i] = TRUE,
                             !.c[c.out.consumed][i + 1] = TRUE],
           out |-> [c.out EXCEPT !.options = MapPut(@, name, chain.args[i + 1])],
           val |-> chain.args[i + 1], found |-> TRUE, at |-> i]

\* getOption that records the value under the name that matched.
getOptionKeysMatched(M, chain, name, alts) ==
  LET names == <<name>> \o alts
      i == optionNames(chain.args, names, 1, M.c[chain.consumed])
      c == clone(M, chain)
      hit == CHOOSE k \in 1..Len(names) : optionMatches(chain.args, i, names[k])
  IN IF i = 0
     THEN [M |-> M, out |-> chain, val |-> <<>>, found |-> FALSE, at |-> 0]
     ELSE [M |-> [c.M EXCEPT !.c[c.out.consumed][i] = TRUE,
                             !.c[c.out.consumed][i + 1] = TRUE],
           out |-> [c.out EXCEPT !.options = MapPut(@, names[hit], chain.args[i + 1])],
           val |-> chain.args[i + 1], found |-> TRUE, at |-> i]

\* getOption that takes a name in last position as found without a value:
\* it marks the name token and binds nothing.
getOptionLast(M, chain, name, alts) ==
  LET names == <<name>> \o alts
      i == optionNames(chain.args, names, 1, M.c[chain.consumed])
      n == Len(chain.args)
      last == /\ n >= 1
              /\ ~M.c[chain.consumed][n]
              /\ \E k \in 1..Len(names) : flagMatches(chain.args[n], names[k])
      c == clone(M, chain)
  IN IF i # 0
     THEN [M |-> [c.M EXCEPT !.c[c.out.consumed][i] = TRUE,
                             !.c[c.out.consumed][i + 1] = TRUE],
           out |-> [c.out EXCEPT !.options = MapPut(@, name, chain.args[i + 1])],
           val |-> chain.args[i + 1], found |-> TRUE, at |-> i]
     ELSE IF last
     THEN [M |-> [c.M EXCEPT !.c[c.out.consumed][n] = TRUE],
           out |-> c.out, val |-> <<>>, found |-> TRUE, at |-> n - 1]
     ELSE [M |-> M, out |-> chain, val |-> <<>>, found |-> FALSE, at |-> 0]

\* argv.getOption: clones only when found; marks the name and the next
\* argument, and records the next argument under name.
\* at is the index of the name token, 0 when not found.
getOption(M, chain, name, alts) ==
  LET i == optionNames(chain.args, <<name>> \o alts, 1, M.c[chain.consumed])
  IN IF i = 0
     THEN [M |-> M, out |-> chain, val |-> <<>>, found |-> FALSE, at |-> 0]
     ELSE LET c == clone(M, chain)
              val == chain.args[i + 1]
          IN [M |-> [c.M EXCEPT !.c[c.out.consumed][i] = TRUE,
                                !.c[c.out.consumed][i + 1] = TRUE],
              out |-> [c.out EXCEPT !.options = MapPut(@, name, val)],
              val |-> val,
              found |-> TRUE,
              at |-> i]

\* ------------------------------------------------------------------ getParam
\* A scan that keeps going to the end: the last unconsumed index, 0 when none.
RECURSIVE paramArgsLast(_, _, _)
paramArgsLast(args, i, consumed) ==
  IF i > Len(args) THEN 0
  ELSE LET rest == paramArgsLast(args, i + 1, consumed)
       IN IF rest # 0 THEN rest
          ELSE IF consumed[i] THEN 0
          ELSE i

\* getParam's loop from index i on: the first unconsumed index, 0 when none.
RECURSIVE paramArgs(_, _, _)
paramArgs(args, i, consumed) ==
  IF i > Len(args) THEN 0
  ELSE IF consumed[i] THEN paramArgs(args, i + 1, consumed)
  ELSE i

\* getParam that passes over the tokens that start with a hyphen.
getParamSkipsDashed(M, chain) ==
  LET plain == {j \in 1..Len(chain.args) :
                  ~M.c[chain.consumed][j] /\ ~HasPrefix(chain.args[j], Dash)}
      i == IF plain = {} THEN 0
           ELSE CHOOSE j \in plain : \A l \in plain : j <= l
  IN IF i = 0
     THEN [M |-> M, out |-> chain, index |-> 0, found |-> FALSE, at |-> 0]
     ELSE LET c == clone(M, chain)
          IN [M |-> [c.M EXCEPT !.c[c.out.consumed][i] = TRUE],
              out |-> [c.out EXCEPT !.parameters = Append(@, chain.args[i])],
              index |-> Len(c.out.parameters),
              found |-> TRUE,
              at |-> i]

\* getParam that puts the new value in front of the parameters.
getParamPrepends(M, chain) ==
  LET i == paramArgs(chain.args, 1, M.c[chain.consumed])
  IN IF i = 0
     THEN [M |-> M, out |-> chain, index |-> 0, found |-> FALSE, at |-> 0]
     ELSE LET c == clone(M, chain)
          IN [M |-> [c.M EXCEPT !.c[c.out.consumed][i] = TRUE],
              out |-> [c.out EXCEPT !.parameters = <<chain.args[i]>> \o @],
              index |-> 0,
              found |-> TRUE,
              at |-> i]

\* argv.getParam: the first unconsumed token, bound on a clone.
\* index is the 0-based position in parameters; at is the (1-based) index
\* of the token, 0 when none was found.
getParam(M, chain) ==
  LET i == paramArgs(chain.args, 1, M.c[chain.consumed])
  IN IF i = 0
     THEN [M |-> M, out |-> chain, index |-> 0, found |-> FALSE, at |-> 0]
     ELSE LET c == clone(M, chain)
          IN [M |-> [c.M EXCEPT !.c[c.out.consumed][i] = TRUE],
              out |-> [c.out EXCEPT !.parameters = Append(@, chain.args[i])],
              index |-> Len(c.out.parameters),
              found |-> TRUE,
              at |-> i]

\* ------------------------------------------------------------------ rules
\* Each rule returns the memory M, the returned state out, whether the rule
\* matched, and bound: the token indices the rule marked consumed.
AllowFlag(M, chain, name, alts) ==
  LET r == getFlag(M, chain, name, alts)
  IN [M |-> r.M, out |-> r.out, found |-> r.present, bound |-> r.marked]

\* AllowOption with ExpectOption's body: appends an error when not found.
AllowOptionAppends(M, chain, name, alts) ==
  LET r == getOption(M, chain, name, alts)
      a == append(r.M, r.out.errors, OptionNotFound(name))
  IN IF ~r.found
     THEN [M |-> a.M, out |-> [r.out EXCEPT !.errors = a.slice],
           found |-> FALSE, bound |-> {}]
     ELSE [M |-> r.M, out |-> r.out, found |-> TRUE, bound |-> {r.at, r.at + 1}]

\* AllowOption that records an empty value for an option it did not find.
AllowOptionRecordsEmpty(M, chain, name, alts) ==
  LET r == getOption(M, chain, name, alts)
  IN [M |-> r.M,
      out |-> IF r.found THEN r.out
              ELSE [r.out EXCEPT !.options = MapPut(@, name, <<>>)],
      found |-> r.found,
      bound |-> IF r.found THEN {r.at, r.at + 1} ELSE {}]

AllowOption(M, chain, name, alts) ==
  LET r == getOption(M, chain, name, alts)
  IN [M |-> r.M, out |-> r.out, found |-> r.found,
      bound |-> IF r.found THEN {r.at, r.at + 1} ELSE {}]

AllowParam(M, chain) ==
  LET r == getParam(M, chain)
  IN [M |-> r.M, out |-> r.out, found |-> r.found,
      bound |-> IF r.found THEN {r.at} ELSE {}]

\* AllowParamNamed that registers the name whether or not a token was found.
AllowParamNamedAlways(M, chain, name) ==
  LET r == getParam(M, chain)
  IN [M |-> r.M,
      out |-> [r.out EXCEPT !.namedParameters =
                 MapPut(@, name, IF r.found THEN r.index ELSE Len(r.out.parameters))],
      found |-> r.found,
      bound |-> IF r.found THEN {r.at} ELSE {}]

AllowParamNamed(M, chain, name) ==
  LET r == getParam(M, chain)
  IN [M |-> r.M,
      out |-> IF r.found
              THEN [r.out EXCEPT !.namedParameters = MapPut(@, name, r.index)]
              ELSE r.out,
      found |-> r.found,
      bound |-> IF r.found THEN {r.at} ELSE {}]

ExpectFlag(M, chain, name, alts) ==
  LET r == getFlag(M, chain, name, alts)
      a == append(r.M, r.out.errors, FlagNotFound(name))
  IN IF ~r.present
     THEN [M |-> a.M, out |-> [r.out EXCEPT !.errors = a.slice],
           found |-> FALSE, bound |-> r.marked]
     ELSE [M |-> r.M, out |-> r.out, found |-> TRUE, bound |-> r.marked]

\* ExpectOption with an error of its own for a name that has no value.
ExpectOptionMissingValue(M, chain, name, alts) ==
  LET r == getOption(M, chain, name, alts)
      names == <<name>> \o alts
      named == \E i \in 1..Len(chain.args), k \in 1..Len(names) :
                 ~M.c[chain.consumed][i] /\ flagMatches(chain.args[i], names[k])
      a == append(r.M, r.out.errors,
                  IF named THEN <<"Option", name, "has no value">>
                  ELSE OptionNotFound(name))
  IN IF ~r.found
     THEN [M |-> a.M, out |-> [r.out EXCEPT !.errors = a.slice],
           found |-> FALSE, bound |-> {}]
     ELSE [M |-> r.M, out |-> r.out, found |-> TRUE, bound |-> {r.at, r.at + 1}]

ExpectOption(M, chain, name, alts) ==
  LET r == getOption(M, chain, name, alts)
      a == append(r.M, r.out.errors, OptionNotFound(name))
  IN IF ~r.found
     THEN [M |-> a.M, out |-> [r.out EXCEPT !.errors = a.slice],
           found |-> FALSE, bound |-> {}]
     ELSE [M |-> r.M, out |-> r.out, found |-> TRUE, bound |-> {r.at, r.at + 1}]

ExpectParam(M, chain) ==
  LET r == getParam(M, chain)
      a == append(r.M, r.out.errors, NoMoreArguments)
  IN IF ~r.found
     THEN [M |-> a.M, out |-> [r.out EXCEPT !.errors = a.slice],
           found |-> FALSE, bound |-> {}]
     ELSE [M |-> r.M, out |-> r.out, found |-> TRUE, bound |-> {r.at}]

\* ExpectParamNamed that registers the name at position 0.
ExpectParamNamedFirst(M, chain, name) ==
  LET r == getParam(M, chain)
      a == append(r.M, r.out.errors, NoMoreArguments)
  IN IF r.found
     THEN [M |-> r.M,
           out |-> [r.out EXCEPT !.namedParameters = MapPut(@, name, 0)],
           found |-> TRUE, bound |-> {r.at}]
     ELSE [M |-> a.M, out |-> [r.out EXCEPT !.errors = a.slice],
           found |-> FALSE, bound |-> {}]

ExpectParamNamed(M, chain, name) ==
  LET r == getParam(M, chain)
      a == append(r.M, r.out.errors, NoMoreArguments)
  IN IF r.found
     THEN [M |-> r.M,
           out |-> [r.out EXCEPT !.namedParameters = MapPut(@, name, r.index)],
           found |-> TRUE, bound |-> {r.at}]
     ELSE [M |-> a.M, out |-> [r.out EXCEPT !.errors = a.slice],
           found |-> FALSE, bound |-> {}]

\* ------------------------------------------------------------------ chop
\* Chop that returns a state without the bindings made so far.
ChopForgets(M, chain) ==
  [M |-> [M EXCEPT !.c[chain.consumed] = [i \in 1..Len(@) |-> TRUE]],
   out |-> [chain EXCEPT !.flags = EmptyMap, !.options = EmptyMap,
                         !.parameters = <<>>, !.namedParameters = EmptyMap]]

\* Chop that leaves the last token unmarked.
ChopKeepsLast(M, chain) ==
  [M |-> [M EXCEPT !.c[chain.consumed] =
            [i \in 1..Len(@) |-> IF i = Len(@) THEN @[i] ELSE TRUE]],
   out |-> chain]

\* argv.Chop: sets every marker of the receiver's consumed array.
Chop(M, chain) ==
  [M |-> [M EXCEPT !.c[chain.consumed] = [i \in 1..Len(@) |-> TRUE]],
   out |-> chain]

\* A second loop that does not look at the markers: every argument.
RECURSIVE chopTailAll(_, _, _)
chopTailAll(args, i, consumed) ==
  IF i > Len(consumed) THEN <<>>
  ELSE <<args[i]>> \o chopTailAll(args, i + 1, consumed)

\* ChopSlice's second loop from index i on: the unconsumed arguments in order.
RECURSIVE chopTail(_, _, _)
chopTail(args, i, consumed) ==
  IF i > Len(consumed) THEN <<>>
  ELSE IF ~consumed[i] THEN <<args[i]>> \o chopTail(args, i + 1, consumed)
  ELSE chopTail(args, i + 1, consumed)

\* argv.ChopSlice: returns the unconsumed arguments and sets their markers.
ChopSlice(M, chain) ==
  [M |-> [M EXCEPT !.c[chain.consumed] = [i \in 1..Len(@) |-> TRUE]],
   out |-> chain,
   tail |-> chopTail(chain.args, 1, M.c[chain.consumed])]

\* strings.Join(a, sep)
RECURSIVE Join(_, _)
Join(a, sep) ==
  IF Len(a) = 0 THEN <<>>
  ELSE IF Len(a) = 1 THEN a[1]
  ELSE a[1] \o sep \o Join(Tail(a), sep)

\* argv.ChopString
ChopString(M, chain) ==
  LET r == ChopSlice(M, chain)
  IN [M |-> r.M, out |-> r.out, tail |-> Join(r.tail, <<" ">>)]

\* ------------------------------------------------------------------ validate
\* The error value nil.
NilErr == [isNil |-> TRUE, Errors |-> [arr |-> 0, len |-> 0]]
\* ArgsError{errors}: holds the slice header, not a copy of the entries.
ArgsError(errors) == [isNil |-> FALSE, Errors |-> errors]

\* Validate that sets the markers of the tokens it has counted.
ValidateConsumes(M, final) ==
  LET count == Cardinality({i \in 1..Len(M.c[final.consumed]) : ~M.c[final.consumed][i]})
      a == IF count > 0
           THEN append(M, final.errors, NotConsumed(count))
           ELSE [M |-> M, slice |-> final.errors]
  IN [M |-> [a.M EXCEPT !.c[final.consumed] = [i \in 1..Len(@) |-> TRUE]],
      out |-> [final EXCEPT !.errors = a.slice],
      err |-> IF a.slice.len > 0 THEN ArgsError(a.slice) ELSE NilErr]

\* argv.Validate: counts the unset markers, appends the leftover error to
\* its copy of the receiver, and returns that copy together with the error.
Validate(M, final) ==
  LET count == Cardinality({i \in 1..Len(M.c[final.consumed]) : ~M.c[final.consumed][i]})
      a == IF count > 0
           THEN append(M, final.errors, NotConsumed(count))
           ELSE [M |-> M, slice |-> final.errors]
  IN [M |-> a.M,
      out |-> [final EXCEPT !.errors = a.slice],
      err |-> IF a.slice.len > 0 THEN ArgsError(a.slice) ELSE NilErr]

\* argv.ChopAndValidate: final.Chop().Validate()
ChopAndValidate(M, final) ==
  LET c == Chop(M, final)
  IN Validate(c.M, c.out)

\* ------------------------------------------------------------------ accessors
\* expectation.HasFlag, HasOption, HasParamAt, HasParamNamed
HasFlag(final, name) == name \in DOMAIN final.flags
HasOption(final, name) == name \in DOMAIN final.options
HasParamAt(final, index) == Len(final.parameters) > index
HasParamNamed(final, name) == name \in DOMAIN final.namedParameters

\* The errors of the accessors (fmt.Errorf); NilError is the nil error.
MustDeclareFlag(name) == <<"You must explicitly Expect or Allow the flag", name>>
OptionWasNotFound(name) == <<"Option", name, "was not found.">>
NoParameterAt(index) == <<"No parameter present at index", index>>
NoParameterNamed(name) == <<"No parameter present with name", name>>

Flag(final, name) ==
  IF name \in DOMAIN final.flags
  THEN [value |-> final.flags[name], err |-> NilError]
  ELSE [value |-> FALSE, err |-> MustDeclareFlag(name)]

Option(final, name) ==
  IF name \in DOMAIN final.options
  THEN [value |-> final.options[name], err |-> NilError]
  ELSE [value |-> <<>>, err |-> OptionWasNotFound(name)]

\* The run-time panic of final.parameters[index] for a negative index; a
\* call that panics is given as a result whose err is this value.
IndexOutOfRange(index) == <<"panic: runtime error: index out of range", index>>

\* expectation.ParamAt: the guard is len(parameters) > index alone, so a
\* negative index reaches final.parameters[index].
ParamAt(final, index) ==
  IF Len(final.parameters) > index
  THEN IF index < 0
       THEN [value |-> <<>>, err |-> IndexOutOfRange(index)]
       ELSE [value |-> final.parameters[index + 1], err |-> NilError]
  ELSE [value |-> <<>>, err |-> NoParameterAt(index)]

ParamNamed(final, name) ==
  IF name \in DOMAIN final.namedParameters
  THEN [value |-> final.parameters[final.namedParameters[name] + 1], err |-> NilError]
  ELSE [value |-> <<>>, err |-> NoParameterNamed(name)]

\* The entries of the aggregate error err, read through its slice.
ErrorList(M, err) ==
  IF err.isNil THEN <<>> ELSE SubSeq(M.e[err.Errors.arr], 1, err.Errors.len)

\* Everything the accessors and the matchers can read from the state s.
View(M, s) ==
  [args |-> s.args,
   consumed |-> Consumed(M, s),
   errors |-> Errors(M, s),
   flags |-> s.flags,
   options |-> s.options,
   parameters |-> s.parameters,
   namedParameters |-> s.namedParameters]

\* ------------------------------------------------------------------ calls
\* An entry of the call log.  op, from, name, alts: the call and the index
\* (in states) of its receiver.  found, bound, err, tail: what it returned
\* and which tokens it marked.  failed: the errors of the Expect* calls of
\* this chain that did not match, in call order.  allowOnly: the chain from
\* Load to this state is made of Allow* calls only.  used: the tokens marked
\* by the declarations of this chain.  validated: the chain has a Validate
\* or ChopAndValidate call.  chain: the indices of the entries of this
\* chain, from Load's to this one.
Entry(op, from, name, alts, found, bound, err, tail, failed, allowOnly) ==
  [op |-> op, from |-> from, name |-> name, alts |-> alts, found |-> found,
   bound |-> bound, err |-> err, tail |-> tail, failed |-> failed,
   allowOnly |-> allowOnly,
   used |-> IF from = 0 THEN {} ELSE calls[from].used \cup bound,
   validated |-> IF from = 0 THEN FALSE
                 ELSE calls[from].validated \/ op \in {"Validate", "ChopAndValidate"},
   chain |-> IF from = 0 THEN {1} ELSE calls[from].chain \cup {Len(calls) + 1}]

Step(M, out, entry) ==
  /\ states' = Append(states, out)
  /\ calls' = Append(calls, entry)
  /\ consumedMem' = M.c
  /\ errorsMem' = M.e
  /\ UNCHANGED <<array, slices, results>>

Receivers == IF Len(states) < MaxStates THEN 1..Len(states) ELSE {}

Init ==
  \E args \in TokenLists :
    /\ states = <<Load(args).out>>
    /\ consumedMem = Load(args).M.c
    /\ errorsMem = Load(args).M.e
    /\ calls = <<Entry("Load", 0, <<>>, <<>>, FALSE, {}, NilErr, <<>>, <<>>, TRUE)>>
    /\ array = <<>> /\ slices = <<>> /\ results = <<>>

CallAllowFlag ==
  \E s \in Receivers, d \in Decls :
    LET r == AllowFlag(Mem, states[s], d[1], d[2])
    IN Step(r.M, r.out,
            Entry("AllowFlag", s, d[1], d[2], r.found, r.bound, NilErr, <<>>,
                  calls[s].failed, calls[s].allowOnly))

CallAllowOption ==
  \E s \in Receivers, d \in Decls :
    LET r == AllowOption(Mem, states[s], d[1], d[2])
    IN Step(r.M, r.out,
            Entry("AllowOption", s, d[1], d[2], r.found, r.bound, NilErr, <<>>,
                  calls[s].failed, calls[s].allowOnly))

CallAllowParam ==
  \E s \in Receivers :
    LET r == AllowParam(Mem, states[s])
    IN Step(r.M, r.out,
            Entry("AllowParam", s, <<>>, <<>>, r.found, r.bound, NilErr, <<>>,
                  calls[s].failed, calls[s].allowOnly))

CallAllowParamNamed ==
  \E s \in Receivers, n \in ParamNames :
    LET r == AllowParamNamed(Mem, states[s], n)
    IN Step(r.M, r.out,
            Entry("AllowParamNamed", s, n, <<>>, r.found, r.bound, NilErr, <<>>,
                  calls[s].failed, calls[s].allowOnly))

CallExpectFlag ==
  \E s \in Receivers, d \in Decls :
    LET r == ExpectFlag(Mem, states[s], d[1], d[2])
    IN Step(r.M, r.out,
            Entry("ExpectFlag", s, d[1], d[2], r.found, r.bound, NilErr, <<>>,
                  IF r.found THEN calls[s].failed
                  ELSE Append(calls[s].failed, FlagNotFound(d[1])),
                  FALSE))

CallExpectOption ==
  \E s \in Receivers, d \in Decls :
    LET r == ExpectOption(Mem, states[s], d[1], d[2])
    IN Step(r.M, r.out,
            Entry("ExpectOption", s, d[1], d[2], r.found, r.bound, NilErr, <<>>,
                  IF r.found THEN calls[s].failed
                  ELSE Append(calls[s].failed, OptionNotFound(d[1])),
                  FALSE))

CallExpectParam ==
  \E s \in Receivers :
    LET r == ExpectParam(Mem, states[s])
    IN Step(r.M, r.out,
            Entry("ExpectParam", s, <<>>, <<>>, r.found, r.bound, NilErr, <<>>,
                  IF r.found THEN calls[s].failed
                  ELSE Append(calls[s].failed, NoMoreArguments),
                  FALSE))

CallExpectParamNamed ==
  \E s \in Receivers, n \in ParamNames :
    LET r == ExpectParamNamed(Mem, states[s], n)
    IN Step(r.M, r.out,
            Entry("ExpectParamNamed", s, n, <<>>, r.found, r.bound, NilErr, <<>>,
                  IF r.found THEN calls[s].failed
                  ELSE Append(calls[s].failed, NoMoreArguments),
                  FALSE))

CallChop ==
  \E s \in Receivers :
    LET r == Chop(Mem, states[s])
    IN Step(r.M, r.out,
            Entry("Chop", s, <<>>, <<>>, FALSE, {}, NilErr, <<>>,
                  calls[s].failed, FALSE))

CallChopSlice ==
  \E s \in Receivers :
    LET r == ChopSlice(Mem, states[s])
    IN Step(r.M, r.out,
            Entry("ChopSlice", s, <<>>, <<>>, FALSE, {}, NilErr, r.tail,
                  calls[s].failed, FALSE))

CallChopString ==
  \E s \in Receivers :
    LET r == ChopString(Mem, states[s])
    IN Step(r.M, r.out,
            Entry("ChopString", s, <<>>, <<>>, FALSE, {}, NilErr, r.tail,
                  calls[s].failed, FALSE))

CallChopAndValidate ==
  \E s \in Receivers :
    LET r == ChopAndValidate(Mem, states[s])
    IN Step(r.M, r.out,
            Entry("ChopAndValidate", s, <<>>, <<>>, FALSE, {}, r.err, <<>>,
                  calls[s].failed, FALSE))

CallValidate ==
  \E s \in Receivers :
    LET r == Validate(Mem, states[s])
    IN Step(r.M, r.out,
            Entry("Validate", s, <<>>, <<>>, FALSE, {}, r.err, <<>>,
                  calls[s].failed, FALSE))

Next ==
  \/ CallAllowFlag
  \/ CallAllowOption
  \/ CallAllowParam
  \/ CallAllowParamNamed
  \/ CallExpectFlag
  \/ CallExpectOption
  \/ CallExpectParam
  \/ CallExpectParamNamed
  \/ CallChop
  \/ CallChopSlice
  \/ CallChopString
  \/ CallChopAndValidate
  \/ CallValidate

Spec == Init /\ [][Next]_vars

\* ------------------------------------------------------------------ shapes
TypeOK ==
  /\ Len(states) = Len(calls)
  /\ Len(states) \in 1..MaxStates
  /\ \A i \in 1..Len(states) :
       /\ states[i].consumed \in 1..Len(consumedMem)
       /\ states[i].errors.arr \in 1..Len(errorsMem)
       /\ states[i].errors.len <= Len(errorsMem[states[i].errors.arr])
       /\ Len(consumedMem[states[i].consumed]) = Len(states[i].args)

\* ------------------------------------------------------------------ free functions
\* The list a slice header reads from the array A.
Slice(A, s) == SubSeq(A, s.lo + 1, s.hi)

\* The argument lists given to the free functions and to the constructors.
ArgLists == SeqsUpTo(Tokens, MaxArgs)

\* OptionMissingValue(name).Error()
OptionMissingValue(name) == <<"Option", name, "has no value">>

\* Param(args): args[1:], args[0], true when there is an argument.
Param(A, s) ==
  IF s.hi - s.lo > 0
  THEN [A |-> A, out |-> [lo |-> s.lo + 1, hi |-> s.hi],
        value |-> A[s.lo + 1], found |-> TRUE, err |-> NilError]
  ELSE [A |-> A, out |-> s, value |-> <<>>, found |-> FALSE, err |-> NilError]

\* The lookFor list of Flag and Option: the dashed forms of names and then
\* of name (append(names, name)), the empty names left out.
lookFor(name, names) ==
  LET all == SelectSeq(names \o <<name>>, LAMBDA n : Len(n) # 0)
  IN [k \in 1..Len(all) |->
        IF Len(all[k]) = 1 THEN Dash \o all[k] ELSE DashDash \o all[k]]

\* The loops of Flag and Option from the argument at (1-based) index i on:
\* the index of the first argument equal to an entry of look, 0 when none.
RECURSIVE lookArgs(_, _, _)
lookArgs(args, look, i) ==
  IF i > Len(args) THEN 0
  ELSE IF \E k \in 1..Len(look) : args[i] = look[k] THEN i
  ELSE lookArgs(args, look, i + 1)

\* A removal that cuts the list off at the first removed argument.
removeTruncates(A, s, i, n) ==
  [A |-> A, out |-> [lo |-> s.lo, hi |-> s.lo + i - 1]]

\* append(args[0:i], args[i+n:]...) for the n arguments from (1-based) index
\* i on: the later arguments move down inside the caller's array, whose last
\* n places keep what they held; the result is n shorter.
remove(A, s, i, n) ==
  [A |-> [p \in 1..Len(A) |->
            IF p >= s.lo + i /\ p <= s.hi - n THEN A[p + n] ELSE A[p]],
   out |-> [lo |-> s.lo, hi |-> s.hi - n]]

\* Flag(args, name, names...)
FreeFlag(A, s, name, names) ==
  LET i == lookArgs(Slice(A, s), lookFor(name, names), 1)
      r == remove(A, s, i, 1)
  IN IF i = 0
     THEN [A |-> A, out |-> s, value |-> <<>>, found |-> FALSE, err |-> NilError]
     ELSE [A |-> r.A, out |-> r.out, value |-> <<>>, found |-> TRUE, err |-> NilError]

\* Option that reports a name in last position as not found.
FreeOptionNeedsValue(A, s, name, names) ==
  LET args == Slice(A, s)
      i == lookArgs(args, lookFor(name, names), 1)
      r == remove(A, s, i, 2)
  IN IF i = 0 \/ i = Len(args)
     THEN [A |-> A, out |-> s, value |-> <<>>, found |-> FALSE, err |-> NilError]
     ELSE [A |-> r.A, out |-> r.out, value |-> args[i + 1], found |-> TRUE,
           err |-> NilError]

\* Option(args, name, names...): the error names the argument found.
FreeOption(A, s, name, names) ==
  LET args == Slice(A, s)
      i == lookArgs(args, lookFor(name, names), 1)
      r == remove(A, s, i, 2)
  IN IF i = 0
     THEN [A |-> A, out |-> s, value |-> <<>>, found |-> FALSE, err |-> NilError]
     ELSE IF i = Len(args)
     THEN [A |-> A, out |-> s, value |-> <<>>, found |-> TRUE,
           err |-> OptionMissingValue(args[i])]
     ELSE [A |-> r.A, out |-> r.out, value |-> args[i + 1], found |-> TRUE,
           err |-> NilError]

\* A call of a free function on the list slices[from]: what it was given
\* (in), what it returned (out, value, found, err), and what the list it was
\* given reads after the call (kept).
FreeStep(op, from, name, names, r) ==
  /\ array' = r.A
  /\ slices' = Append(slices, r.out)
  /\ results' = Append(results,
       [op |-> op, from |-> from, name |-> name, names |-> names,
        in |-> Slice(array, slices[from]), out |-> Slice(r.A, r.out),
        value |-> r.value, found |-> r.found, err |-> r.err,
        kept |-> Slice(r.A, slices[from])])
  /\ UNCHANGED <<states, calls, consumedMem, errorsMem>>

FreeReceivers == IF Len(results) < MaxCalls THEN 1..Len(slices) ELSE {}

InitFree ==
  \E args \in ArgLists :
    /\ array = args
    /\ slices = <<[lo |-> 0, hi |-> Len(args)]>>
    /\ results = <<>>
    /\ states = <<>> /\ calls = <<>> /\ consumedMem = <<>> /\ errorsMem = <<>>

CallParam ==
  \E s \in FreeReceivers :
    FreeStep("Param", s, <<>>, <<>>, Param(array, slices[s]))

CallFlag ==
  \E s \in FreeReceivers, d \in Decls :
    FreeStep("Flag", s, d[1], d[2], FreeFlag(array, slices[s], d[1], d[2]))

CallOption ==
  \E s \in FreeReceivers, d \in Decls :
    FreeStep("Option", s, d[1], d[2], FreeOption(array, slices[s], d[1], d[2]))

NextFree == CallParam \/ CallFlag \/ CallOption

SpecFree == InitFree /\ [][NextFree]_vars

\* ------------------------------------------------------------------ constructors
\* Args(args) of args.go: allocates exp.args and exp.processors with
\* len(args) zero values, then copy(args, exp.args): the destination of the
\* copy is the caller's list.
Args(A, s) ==
  LET n == s.hi - s.lo
      exp == [args |-> [i \in 1..n |-> <<>>],
              processors |-> [i \in 1..n |-> "nil"]]
  IN [A |-> [p \in 1..Len(A) |->
               IF p > s.lo /\ p <= s.hi THEN exp.args[p - s.lo] ELSE A[p]],
      out |-> exp]

\* A construction on the caller's list slices[1]: the list it was given
\* (in), the state it built (built), and what the caller's list reads after
\* the call (caller).
BuildStep(op, A, built) ==
  /\ array' = A
  /\ results' = Append(results,
       [op |-> op, in |-> Slice(array, slices[1]), built |-> built,
        caller |-> Slice(A, slices[1])])
  /\ UNCHANGED <<slices, states, calls, consumedMem, errorsMem>>

\* Args of args.go on the caller's list.
CallArgs ==
  /\ Len(results) < MaxCalls
  /\ LET r == Args(array, slices[1])
     IN BuildStep("Args", r.A, r.out)

\* The later constructor (Load) on the caller's list.
CallLoad ==
  /\ Len(results) < MaxCalls
  /\ LET r == Load(Slice(array, slices[1]))
     IN BuildStep("Load", array, View(r.M, r.out))

NextArgs == CallArgs \/ CallLoad

SpecArgs == InitFree /\ [][NextArgs]_vars

\* ------------------------------------------------------------------ one chain
\* The names and tokens of TestMultipleArguments.
Do == <<"d", "o">>
Something == <<"s", "o", "m", "e", "t", "h", "i", "n", "g">>
Carefully == <<"c", "a", "r", "e", "f", "u", "l", "l", "y">>
And == <<"a", "n", "d">>
Slowly == <<"s", "l", "o", "w", "l", "y">>
Verbose == <<"v", "e", "r", "b", "o", "s", "e">>
V == <<"v">>
ThatMeansVerbose == <<"(", "t", "h", "a", "t", " ", "m", "e", "a", "n", "s", " ", "v", "e", "r", "b", "o", "s", "e", ")">>
Command == <<"c", "o", "m", "m", "a", "n", "d">>

\* The arguments of TestMultipleArguments.
MultipleArguments ==
  <<Do, Something, DashDash \o Carefully, DashDash \o And, Slowly, Dash \o V,
    ThatMeansVerbose>>

\* The lists made of some of the entries of s, in their order.
RECURSIVE SubLists(_)
SubLists(s) ==
  IF s = <<>> THEN {<<>>}
  ELSE LET rest == SubLists(Tail(s))
       IN rest \cup {<<Head(s)>> \o t : t \in rest}

\* (name, alts) pairs of the option declarations of TestMultipleArguments.
ChainOptions == {<<And, <<>>>>, <<Verbose, <<V>>>>}

\* One chain as in the test: every call is made on the state the call
\* before it returned, each declaration is made at most once, and Validate
\* ends the chain.
ChainOpen(op, name) ==
  /\ calls[Len(calls)].op # "Validate"
  /\ \A j \in 1..Len(calls) : ~(calls[j].op = op /\ calls[j].name = name)

InitChain ==
  \E args \in SubLists(MultipleArguments) :
    /\ states = <<Load(args).out>>
    /\ consumedMem = Load(args).M.c
    /\ errorsMem = Load(args).M.e
    /\ calls = <<Entry("Load", 0, <<>>, <<>>, FALSE, {}, NilErr, <<>>, <<>>, TRUE)>>
    /\ array = <<>> /\ slices = <<>> /\ results = <<>>

ChainExpectParam ==
  /\ ChainOpen("ExpectParam", <<>>)
  /\ LET s == Len(states)
         r == ExpectParam(Mem, states[s])
     IN Step(r.M, r.out,
             Entry("ExpectParam", s, <<>>, <<>>, r.found, r.bound, NilErr, <<>>,
                   IF r.found THEN calls[s].failed
                   ELSE Append(calls[s].failed, NoMoreArguments),
                   FALSE))

ChainExpectParamNamed ==
  /\ ChainOpen("ExpectParamNamed", Command)
  /\ LET s == Len(states)
         r == ExpectParamNamed(Mem, states[s], Command)
     IN Step(r.M, r.out,
             Entry("ExpectParamNamed", s, Command, <<>>, r.found, r.bound, NilErr, <<>>,
                   IF r.found THEN calls[s].failed
                   ELSE Append(calls[s].failed, NoMoreArguments),
                   FALSE))

ChainExpectFlag ==
  /\ ChainOpen("ExpectFlag", Carefully)
  /\ LET s == Len(states)
         r == ExpectFlag(Mem, states[s], Carefully, <<>>)
     IN Step(r.M, r.out,
             Entry("ExpectFlag", s, Carefully, <<>>, r.found, r.bound, NilErr, <<>>,
                   IF r.found THEN calls[s].failed
                   ELSE Append(calls[s].failed, FlagNotFound(Carefully)),
                   FALSE))

ChainExpectOption ==
  \E d \in ChainOptions :
    /\ ChainOpen("ExpectOption", d[1])
    /\ LET s == Len(states)
           r == ExpectOption(Mem, states[s], d[1], d[2])
       IN Step(r.M, r.out,
               Entry("ExpectOption", s, d[1], d[2], r.found, r.bound, NilErr, <<>>,
                     IF r.found THEN calls[s].failed
                     ELSE Append(calls[s].failed, OptionNotFound(d[1])),
                     FALSE))

ChainValidate ==
  /\ ChainOpen("Validate", <<>>)
  /\ LET s == Len(states)
         r == Validate(Mem, states[s])
     IN Step(r.M, r.out,
             Entry("Validate", s, <<>>, <<>>, FALSE, {}, r.err, <<>>,
                   calls[s].failed, FALSE))

NextChain ==
  \/ ChainExpectParam
  \/ ChainExpectParamNamed
  \/ ChainExpectFlag
  \/ ChainExpectOption
  \/ ChainValidate

SpecChain == InitChain /\ [][NextChain]_vars

\* ------------------------------------------------------------------ near misses
\* Tokens that are, or nearly are, the dashed form of the names verbose and
\* v: "-v", "--v", "-verbose", "--verbose", "--verbosely", "verbose".
NearTokens ==
  {Dash \o V, DashDash \o V, Dash \o Verbose, DashDash \o Verbose,
   DashDash \o Verbose \o <<"l", "y">>, Verbose}

\* (name, alts) pairs given to the flag and option declarations on them.
NearDecls == {<<Verbose, <<>>>>, <<V, <<>>>>, <<Verbose, <<V>>>>}

InitNear ==
  \E args \in SeqsUpTo(NearTokens, MaxLen) :
    /\ states = <<Load(args).out>>
    /\ consumedMem = Load(args).M.c
    /\ errorsMem = Load(args).M.e
    /\ calls = <<Entry("Load", 0, <<>>, <<>>, FALSE, {}, NilErr, <<>>, <<>>, TRUE)>>
    /\ array = <<>> /\ slices = <<>> /\ results = <<>>

\* Each call is made on the state the call before it returned.
NearAllowFlag ==
  \E d \in NearDecls :
    /\ Len(states) < MaxStates
    /\ LET s == Len(states)
           r == AllowFlag(Mem, states[s], d[1], d[2])
       IN Step(r.M, r.out,
               Entry("AllowFlag", s, d[1], d[2], r.found, r.bound, NilErr, <<>>,
                     calls[s].failed, calls[s].allowOnly))

NearExpectFlag ==
  \E d \in NearDecls :
    /\ Len(states) < MaxStates
    /\ LET s == Len(states)
           r == ExpectFlag(Mem, states[s], d[1], d[2])
       IN Step(r.M, r.out,
               Entry("ExpectFlag", s, d[1], d[2], r.found, r.bound, NilErr, <<>>,
                     IF r.found THEN calls[s].failed
                     ELSE Append(calls[s].failed, FlagNotFound(d[1])),
                     FALSE))

NearAllowOption ==
  \E d \in NearDecls :
    /\ Len(states) < MaxStates
    /\ LET s == Len(states)
           r == AllowOption(Mem, states[s], d[1], d[2])
       IN Step(r.M, r.out,
               Entry("AllowOption", s, d[1], d[2], r.found, r.bound, NilErr, <<>>,
                     calls[s].failed, calls[s].allowOnly))

NearExpectOption ==
  \E d \in NearDecls :
    /\ Len(states) < MaxStates
    /\ LET s == Len(states)
           r == ExpectOption(Mem, states[s], d[1], d[2])
       IN Step(r.M, r.out,
               Entry("ExpectOption", s, d[1], d[2], r.found, r.bound, NilErr, <<>>,
                     IF r.found THEN calls[s].failed
                     ELSE Append(calls[s].failed, OptionNotFound(d[1])),
                     FALSE))

NextNear ==
  \/ NearAllowFlag
  \/ NearExpectFlag
  \/ NearAllowOption
  \/ NearExpectOption

SpecNear == InitNear /\ [][NextNear]_vars

\* ------------------------------------------------------------------ OptionInt
\* The value of a digit character, 99 for any other character.
DigitValue(c) ==
  CASE c = "0" -> 0 [] c = "1" -> 1 [] c = "2" -> 2 [] c = "3" -> 3
    [] c = "4" -> 4 [] c = "5" -> 5 [] c = "6" -> 6 [] c = "7" -> 7
    [] c = "8" -> 8 [] c = "9" -> 9
    [] c \in {"a", "A"} -> 10 [] c \in {"b", "B"} -> 11 [] c \in {"c", "C"} -> 12
    [] c \in {"d", "D"} -> 13 [] c \in {"e", "E"} -> 14 [] c \in {"f", "F"} -> 15
    [] OTHER -> 99

\* The syntax error of strconv.ParseInt.
ErrSyntax(s) == <<"strconv.ParseInt: parsing", s, "invalid syntax">>

\* The digit loop of strconv.ParseUint from the k-th character of body on:
\* the number read in the given base, -1 when a character is not a digit of
\* that base.  (The separator "_" is not among the characters of the model.)
RECURSIVE parseDigits(_, _, _, _)
parseDigits(body, base, k, acc) ==
  IF k > Len(body) THEN acc
  ELSE IF DigitValue(body[k]) >= base THEN -1
  ELSE parseDigits(body, base, k + 1, acc * base + DigitValue(body[k]))

\* strconv.ParseInt(s, 0, 0): an optional sign, then with base 0 the prefix
\* 0b, 0o or 0x (with at least one more character) or a leading 0 for octal,
\* else base 10.  The numbers of the model's tokens have two digits at
\* most, so the range error of a number that does not fit 64 bits is not
\* reached.
ParseInt(s) ==
  IF s = <<>> THEN [value |-> 0, err |-> ErrSyntax(s)]
  ELSE
    LET neg == s[1] = "-"
        u == IF s[1] \in {"+", "-"} THEN Tail(s) ELSE s
        prefixed == Len(u) >= 3 /\ u[1] = "0" /\ u[2] \in {"b", "B", "o", "O", "x", "X"}
        base == IF u = <<>> \/ u[1] # "0" THEN 10
                ELSE IF ~prefixed THEN 8
                ELSE IF u[2] \in {"b", "B"} THEN 2
                ELSE IF u[2] \in {"o", "O"} THEN 8
                ELSE 16
        body == IF u = <<>> \/ u[1] # "0" THEN u
                ELSE IF prefixed THEN SubSeq(u, 3, Len(u))
                ELSE Tail(u)
        n == parseDigits(body, base, 1, 0)
    IN IF u = <<>> \/ n = -1 THEN [value |-> 0, err |-> ErrSyntax(s)]
       ELSE [value |-> IF neg THEN -n ELSE n, err |-> NilError]

\* OptionInt(args, name, names...): Option has already run on the caller's
\* array when the value is parsed; on both error paths the list returned is
\* args, the header the caller gave.
OptionInt(A, s, name, names) ==
  LET r == FreeOption(A, s, name, names)
      p == ParseInt(r.value)
  IN IF ~r.found \/ r.err # NilError
     THEN [A |-> r.A, out |-> s, value |-> 0, found |-> r.found, err |-> r.err]
     ELSE IF p.err # NilError
     THEN [A |-> r.A, out |-> s, value |-> 0, found |-> r.found, err |-> p.err]
     ELSE [A |-> r.A, out |-> r.out, value |-> p.value, found |-> r.found,
           err |-> NilError]

\* The tokens of the lists given to OptionInt: "--key", "12", "-7", "v".
IntTokens == {DashDash \o Key, <<"1", "2">>, <<"-", "7">>, Val}

InitInt ==
  \E args \in SeqsUpTo(IntTokens, MaxArgs) :
    /\ array = args
    /\ slices = <<[lo |-> 0, hi |-> Len(args)]>>
    /\ results = <<>>
    /\ states = <<>> /\ calls = <<>> /\ consumedMem = <<>> /\ errorsMem = <<>>

CallOptionInt ==
  \E s \in FreeReceivers, d \in Decls :
    FreeStep("OptionInt", s, d[1], d[2], OptionInt(array, slices[s], d[1], d[2]))

NextInt == CallOptionInt

SpecInt == InitInt /\ [][NextInt]_vars

\* ------------------------------------------------------------------ claims
MemNext == [c |-> consumedMem', e |-> errorsMem']

\* The call made by the step, and the state it returned.
NewCall == calls'[Len(calls')]
NewState == states'[Len(states')]

AllowOps == {"AllowFlag", "AllowOption", "AllowParam", "AllowParamNamed"}
ExpectOps == {"ExpectFlag", "ExpectOption", "ExpectParam", "ExpectParamNamed"}
DeclOps == AllowOps \cup ExpectOps
FlagOps == {"AllowFlag", "ExpectFlag"}
OptionOps == {"AllowOption", "ExpectOption"}
ChopOps == {"Chop", "ChopSlice", "ChopString", "ChopAndValidate"}
ValidateOps == {"Validate", "ChopAndValidate"}
ParamOps == {"AllowParam", "ExpectParam", "AllowParamNamed", "ExpectParamNamed"}

\* The token that stands for a name: one dash for a one-character name,
\* two dashes otherwise.
Dashed(n) == IF Len(n) = 1 THEN Dash \o n ELSE DashDash \o n

\* What s.Validate() reports: whether it fails, and its entries.
Outcome(M, s) ==
  LET r == Validate(M, s)
  IN [fails |-> ~r.err.isNil, entries |-> ErrorList(r.M, r.err)]

\* C1: an Allow*/Expect* call leaves its receiver S unchanged: what S holds
\* (consumed markers, flags, options, parameters, named parameters, errors)
\* and what S.Validate() reports are the same after the call as before; the
\* new binding is in the returned state only.
C1_ReceiverUnchanged ==
  [][NewCall.op \in DeclOps =>
       /\ View(MemNext, states'[NewCall.from]) = View(Mem, states[NewCall.from])
       /\ Outcome(MemNext, states'[NewCall.from]) = Outcome(Mem, states[NewCall.from])
       /\ NewCall.op \in FlagOps => HasFlag(NewState, NewCall.name)
       /\ (NewCall.op \in {"AllowParamNamed", "ExpectParamNamed"} /\ NewCall.found)
            => HasParamNamed(NewState, NewCall.name)]_vars

\* C1 witness: ExpectParamNamed and ExpectFlag have matched; the receiver has
\* neither the name nor the marker, the returned state has both.
C1_Witness ==
  \E i, j \in 2..Len(states) :
    /\ calls[i].op = "ExpectParamNamed" /\ calls[i].found
    /\ ~HasParamNamed(states[calls[i].from], calls[i].name)
    /\ HasParamNamed(states[i], calls[i].name)
    /\ Unconsumed(Mem, states[calls[i].from]) # Unconsumed(Mem, states[i])
    /\ calls[j].op = "ExpectFlag" /\ calls[j].found
    /\ ~HasFlag(states[calls[j].from], calls[j].name)
    /\ Flag(states[j], calls[j].name).value

\* C2: a state A returned by an ExpectOption / ExpectParam / ExpectParamNamed
\* call that found no match keeps its list of errors, and A.Validate() keeps
\* reporting the same entries, whatever is later called on other states.
C2_SiblingErrorsKept ==
  [][\A a \in 2..Len(states) :
       (/\ calls[a].op \in {"ExpectOption", "ExpectParam", "ExpectParamNamed"}
        /\ ~calls[a].found
        /\ NewCall.from # a)
       => /\ Errors(MemNext, states'[a]) = Errors(Mem, states[a])
          /\ Outcome(MemNext, states'[a]) = Outcome(Mem, states[a])]_vars

\* C3: Chop, ChopSlice, ChopString and ChopAndValidate leave their receiver
\* unchanged: it has the unconsumed tokens it had before the call.
C3_ChopKeepsReceiver ==
  [][NewCall.op \in ChopOps =>
       /\ Unconsumed(MemNext, states'[NewCall.from]) = Unconsumed(Mem, states[NewCall.from])
       /\ Outcome(MemNext, states'[NewCall.from]) = Outcome(Mem, states[NewCall.from])]_vars

\* The tokens that are consumed in the returned state and were not in the
\* receiver before the call.
NewlyConsumed ==
  {i \in 1..Len(NewState.args) :
     Consumed(MemNext, NewState)[i] /\ ~Consumed(Mem, states[NewCall.from])[i]}

\* C4: a flag declaration marks at most one token consumed, and that token
\* is the dashed form of the primary name or of an alternate.
C4_FlagConsumesOneMatch ==
  [][NewCall.op \in FlagOps =>
       /\ Cardinality(NewlyConsumed) <= 1
       /\ \A i \in NewlyConsumed :
            \E k \in 1..(1 + Len(NewCall.alts)) :
              NewState.args[i] = Dashed((<<NewCall.name>> \o NewCall.alts)[k])]_vars

\* C5: along a chain no token is bound twice: the tokens a declaration
\* binds (match or value) were not bound by an earlier declaration of the
\* chain.
C5_NoTokenBoundTwice ==
  [][NewCall.op \in DeclOps =>
       NewCall.bound \cap calls[NewCall.from].used = {}]_vars

\* C6: Validate returns an error if and only if an earlier Expect* of the
\* chain did not match or a token is unconsumed when Validate runs (none is
\* after the Chop of ChopAndValidate).
C6_ValidateFailsIff ==
  [][/\ NewCall.op = "Validate" =>
          (~NewCall.err.isNil <=>
             \/ calls[NewCall.from].failed # <<>>
             \/ Unconsumed(Mem, states[NewCall.from]) # {})
     /\ NewCall.op = "ChopAndValidate" =>
          (~NewCall.err.isNil <=> calls[NewCall.from].failed # <<>>)]_vars

\* What Validate is to report for a chain whose failed Expect* calls gave
\* the errors failed, with n tokens unconsumed.
Report(failed, n) == IF n > 0 THEN Append(failed, NotConsumed(n)) ELSE failed

\* C7: the aggregate error of Validate lists one entry per failed Expect*
\* of the chain, in call order, then one leftover entry with the number of
\* unconsumed tokens when that number is positive.
C7_AggregateEntries ==
  [][NewCall.op = "Validate" =>
       ErrorList(MemNext, NewCall.err) =
         Report(calls[NewCall.from].failed,
                Cardinality(Unconsumed(Mem, states[NewCall.from])))]_vars

\* C8: an Allow* call appends no error, matched or not, and a chain of Allow*
\* calls only that has consumed every token validates without error.
C8_AllowNeverFails ==
  [][/\ NewCall.op \in AllowOps =>
          Errors(MemNext, NewState) = Errors(Mem, states[NewCall.from])
     /\ (/\ NewCall.op = "Validate"
         /\ calls[NewCall.from].allowOnly
         /\ Unconsumed(Mem, states[NewCall.from]) = {})
        => NewCall.err.isNil]_vars

\* C8 witness: Validate has passed on a chain of Allow* calls whose option
\* call consumed the whole token list.
C8_Witness ==
  \E i \in 2..Len(states) :
    /\ calls[i].op = "Validate" /\ calls[i].err.isNil
    /\ calls[calls[i].from].op = "AllowOption" /\ calls[calls[i].from].found
    /\ calls[calls[i].from].allowOnly
    /\ Len(states[i].args) = 2
    /\ Errors(Mem, states[i]) = <<>>

\* The error an Expect* call appends when it does not match.
ExpectError(c) ==
  IF c.op = "ExpectFlag" THEN FlagNotFound(c.name)
  ELSE IF c.op = "ExpectOption" THEN OptionNotFound(c.name)
  ELSE NoMoreArguments

\* C9: an Expect* call appends one error when it does not match and none
\* when it does; each state keeps the errors of the failed Expect* calls of
\* its chain, in call order, and Validate reports them.
C9_ExpectErrorsKept ==
  [][/\ NewCall.op \in ExpectOps =>
          Errors(MemNext, NewState) =
            Errors(Mem, states[NewCall.from])
              \o (IF NewCall.found THEN <<>> ELSE <<ExpectError(NewCall)>>)
     /\ \A i \in 1..Len(states') :
          ~calls'[i].validated => Errors(MemNext, states'[i]) = calls'[i].failed
     /\ (NewCall.op \in ValidateOps /\ ~calls[NewCall.from].validated) =>
          SubSeq(ErrorList(MemNext, NewCall.err), 1, Len(NewCall.failed)) = NewCall.failed]_vars

\* The unconsumed tokens of the receiver, other than the last token, that
\* are the dashed form of one of the names of the call c.
OptionTokens(M, s, c) ==
  {i \in 1..(Len(s.args) - 1) :
     /\ ~Consumed(M, s)[i]
     /\ \E k \in 1..(1 + Len(c.alts)) : s.args[i] = Dashed((<<c.name>> \o c.alts)[k])}

\* C10: when the receiver has an unconsumed token, not the last one, that is
\* the dashed form of the primary name or of an alternate, the option call
\* matches such a token i: the returned state has i and i+1 consumed and
\* Option(primary) is token i+1.
C10_OptionBindsNextToken ==
  [][NewCall.op \in OptionOps =>
       LET S == states[NewCall.from]
           cand == OptionTokens(Mem, S, NewCall)
       IN /\ cand # {} => NewCall.found
          /\ NewCall.found =>
               \E i \in cand :
                 /\ Consumed(MemNext, NewState)[i]
                 /\ Consumed(MemNext, NewState)[i + 1]
                 /\ Option(NewState, NewCall.name) = [value |-> S.args[i + 1], err |-> NilError]]_vars

\* C10 witness: tokens "-k" "v" and the names key, id, k: the option is
\* bound under key through its alternate k.
C10_Witness ==
  \E i \in 2..Len(states) :
    /\ calls[i].op = "ExpectOption" /\ calls[i].found
    /\ calls[i].name = Key /\ calls[i].alts = <<Id, K>>
    /\ states[i].args = <<Dash \o K, Val>>
    /\ Option(states[i], Key) = [value |-> Val, err |-> NilError]
    /\ Unconsumed(Mem, states[i]) = {}

\* The call c finds the last token of the receiver s unconsumed and equal to
\* the dashed form of one of its names.
LastHasName(M, s, c) ==
  /\ Len(s.args) >= 1
  /\ ~Consumed(M, s)[Len(s.args)]
  /\ \E k \in 1..(1 + Len(c.alts)) :
       s.args[Len(s.args)] = Dashed((<<c.name>> \o c.alts)[k])

\* The last token is the only unconsumed token with one of the names.
LastOnly(M, s, c) == LastHasName(M, s, c) /\ OptionTokens(M, s, c) = {}

\* No unconsumed token has one of the names of the call c.
Absent(M, s, c) == ~LastHasName(M, s, c) /\ OptionTokens(M, s, c) = {}

RECURSIVE ParamTokens(_, _)
ParamTokens(log, i) ==
  IF log[i].from = 0 THEN <<>>
  ELSE ParamTokens(log, log[i].from) \o
         (IF log[i].op \in ParamOps /\ log[i].found
          THEN <<CHOOSE j \in log[i].bound : TRUE>> ELSE <<>>)

\* C13: a param declaration that matches binds the lowest-index token that
\* is unconsumed in its receiver at the time of the call, and after every
\* call the parameters of the returned state are the tokens at a strictly
\* increasing sequence of indices: those bound by the param declarations of
\* its chain, whatever flag and option declarations come between them.
C13_ParamsInTokenOrder ==
  [][LET S == states[NewCall.from]
         free == Unconsumed(Mem, S)
         idx == ParamTokens(calls', Len(calls'))
     IN /\ (NewCall.op \in ParamOps /\ NewCall.found) =>
             /\ free # {}
             /\ \E j \in free : /\ \A l \in free : j <= l
                                /\ NewCall.bound = {j}
                                /\ NewState.parameters = Append(S.parameters, S.args[j])
        /\ Len(idx) = Len(NewState.parameters)
        /\ \A k \in 1..Len(idx) : NewState.parameters[k] = NewState.args[idx[k]]
        /\ \A k \in 1..(Len(idx) - 1) : idx[k] < idx[k + 1]]_vars

\* C13 witness: tokens "-k", "v": AllowFlag(k) has taken the first token and
\* the param declaration after it has bound the second.
C13_Witness ==
  \E i \in 2..Len(states) :
    /\ calls[i].op \in ParamOps /\ calls[i].found /\ calls[i].bound = {2}
    /\ calls[i].from > 1
    /\ calls[calls[i].from].op \in FlagOps /\ calls[calls[i].from].bound = {1}
    /\ states[i].args = <<Dash \o K, Val>>
    /\ states[i].parameters = <<Val>>
    /\ ParamTokens(calls, i) = <<2>>

Ancestors(i) == calls[i].chain

Highest(S) == CHOOSE x \in S : \A y \in S : y <= x

\* The index of the newest entry of states and calls.  Both only grow and no
\* entry is ever rewritten, so a predicate that reads states and calls alone
\* holds of every entry in every reachable state when it holds of the
\* newest one in every reachable state.
Newest == Len(states)

\* Every name a flag or option declaration of the model is given.
Names == {Key, Id, K}
NamedParamOps == {"AllowParamNamed", "ExpectParamNamed"}

\* The named param declarations of the chain to entry i that registered n.
Registered(i, n) ==
  {j \in Ancestors(i) : calls[j].op \in NamedParamOps /\ calls[j].name = n /\ calls[j].found}

FlagDeclared(i, n) ==
  {j \in Ancestors(i) : calls[j].op \in FlagOps /\ calls[j].name = n}

\* C16: in every state, a name given as primary name to a flag declaration
\* of the chain reads without error, as true when the latest such
\* declaration marked a token and as false when it marked none; Flag of a
\* name that no flag declaration of the chain was given as primary name
\* returns an error.
C16_FlagRecordedAnyOutcome ==
  \A i \in {Newest}, n \in Names :
    IF FlagDeclared(i, n) = {}
    THEN /\ ~HasFlag(states[i], n)
         /\ Flag(states[i], n) = [value |-> FALSE, err |-> MustDeclareFlag(n)]
         /\ Flag(states[i], n).err # NilError
    ELSE LET j == Highest(FlagDeclared(i, n))
         IN /\ calls[j].found <=> calls[j].bound # {}
            /\ Flag(states[i], n) = [value |-> calls[j].bound # {}, err |-> NilError]

\* C16 witness: on the one token "--key", AllowFlag(k) has matched nothing
\* and reads false without error while "key" reads with an error; a sibling
\* declaration of "key" has matched and reads true.
C16_Witness ==
  \E i, j \in 2..Len(states) :
    /\ states[1].args = <<DashDash \o Key>>
    /\ calls[i].op = "AllowFlag" /\ calls[i].name = K /\ ~calls[i].found
    /\ Flag(states[i], K) = [value |-> FALSE, err |-> NilError]
    /\ Flag(states[i], Key).err = MustDeclareFlag(Key)
    /\ calls[j].op \in FlagOps /\ calls[j].name = Key /\ calls[j].found
    /\ Flag(states[j], Key) = [value |-> TRUE, err |-> NilError]

\* The option declarations of the chain to entry i with the primary name n,
\* and those of them that matched.
OptionDeclared(i, n) ==
  {j \in Ancestors(i) : calls[j].op \in OptionOps /\ calls[j].name = n}
OptionMatched(i, n) == {j \in OptionDeclared(i, n) : calls[j].found}

C18_KeysArePrimaryNames ==
  \A i \in {Newest} :
    /\ DOMAIN states[i].flags = {n \in Names : FlagDeclared(i, n) # {}}
    /\ DOMAIN states[i].options = {n \in Names : OptionMatched(i, n) # {}}
    /\ \A j \in Ancestors(i) : \A k \in 1..Len(calls[j].alts) :
         LET a == calls[j].alts[k]
         IN /\ HasFlag(states[i], a) => FlagDeclared(i, a) # {}
            /\ HasOption(states[i], a) => OptionMatched(i, a) # {}

\* C18 witness: AllowOption(key, id, k) has matched the token "-k": the
\* value is under "key", and neither "k" nor "id" is a key.
C18_Witness ==
  \E i \in 2..Len(states) :
    /\ calls[i].op = "AllowOption" /\ calls[i].name = Key /\ calls[i].found
    /\ calls[i].alts = <<Id, K>>
    /\ calls[i].from = 1
    /\ states[i].args = <<Dash \o K, Val>>
    /\ Option(states[i], Key) = [value |-> Val, err |-> NilError]
    /\ ~HasOption(states[i], K) /\ ~HasOption(states[i], Id)

\* The bindings of the state s: what the accessors read.
Bindings(s) ==
  [flags |-> s.flags, options |-> s.options,
   parameters |-> s.parameters, namedParameters |-> s.namedParameters]

\* C19: the state a declaration returns already holds its binding, Validate
\* called or not: a matched param reads at the next position (and under its
\* name for a named param), a matched option reads its value, a flag reads
\* its outcome; and the state a Chop or Validate call returns has the
\* bindings of its receiver.
C19_BoundAtDeclaration ==
  \A i \in {Newest} \ {1} :
    LET c == calls[i]
        S == states[c.from]
        R == states[i]
    IN /\ (c.op \in ParamOps /\ c.found) =>
            \E t \in c.bound :
              /\ ParamAt(R, Len(S.parameters)) = [value |-> R.args[t], err |-> NilError]
              /\ c.op \in NamedParamOps =>
                   ParamNamed(R, c.name) = [value |-> R.args[t], err |-> NilError]
       /\ (c.op \in OptionOps /\ c.found) =>
            \E t \in c.bound : Option(R, c.name) = [value |-> R.args[t], err |-> NilError]
       /\ c.op \in FlagOps => Flag(R, c.name) = [value |-> c.found, err |-> NilError]
       /\ c.op \in ChopOps \cup ValidateOps => Bindings(R) = Bindings(S)

\* C19 witness: ExpectParamNamed(cmd) has bound "v", no Validate has run on
\* the chain, and the Chop after it returns a state where "cmd" still reads
\* "v".
C19_Witness ==
  \E i \in 2..Len(states) :
    /\ calls[i].op = "Chop" /\ ~calls[i].validated
    /\ calls[i].from > 1
    /\ calls[calls[i].from].op = "ExpectParamNamed" /\ calls[calls[i].from].found
    /\ ParamNamed(states[calls[i].from], Cmd) = [value |-> Val, err |-> NilError]
    /\ ParamNamed(states[i], Cmd) = [value |-> Val, err |-> NilError]
    /\ Unconsumed(Mem, states[i]) = {}

\* C20: on a state of a chain in which no Expect* declaration has failed,
\* whatever tokens are unconsumed, Chop followed by Validate (in one call of
\* ChopAndValidate, or Validate on the result of a Chop) returns no error and
\* keeps the bindings.
C20_ChopValidateSucceeds ==
  [][(/\ calls[NewCall.from].failed = <<>>
      /\ \/ NewCall.op = "ChopAndValidate"
         \/ NewCall.op = "Validate" /\ calls[NewCall.from].op \in ChopOps) =>
       /\ NewCall.err.isNil
       /\ Bindings(NewState) = Bindings(states[NewCall.from])]_vars

\* The tokens of args at the indices of the set free, by rising index.
InOrder(args, free) ==
  [k \in 1..Cardinality(free) |->
     args[CHOOSE j \in free : Cardinality({l \in free : l <= j}) = k]]

\* C21: ChopSlice returns the tokens whose marker is unset in its receiver
\* when it is called, each once and by rising index, and every marker of the
\* returned state is set; ChopString returns the same tokens joined by
\* single spaces.
C21_ChopSliceReturnsUnconsumed ==
  [][NewCall.op \in {"ChopSlice", "ChopString"} =>
       LET S == states[NewCall.from]
           want == InOrder(S.args, Unconsumed(Mem, S))
       IN /\ NewCall.op = "ChopSlice" => NewCall.tail = want
          /\ NewCall.op = "ChopString" => NewCall.tail = Join(want, <<" ">>)
          /\ NewState.args = S.args
          /\ Unconsumed(MemNext, NewState) = {}]_vars

\* C21 witness: on tokens "v", "-k" a flag declaration has consumed the
\* second token and ChopSlice after it has returned the first alone.
C21_Witness ==
  \E i \in 2..Len(states) :
    /\ calls[i].op = "ChopSlice" /\ calls[i].tail = <<Val>>
    /\ calls[i].from > 1
    /\ calls[calls[i].from].op \in FlagOps /\ calls[calls[i].from].bound = {2}
    /\ states[i].args = <<Val, Dash \o K>>
    /\ Unconsumed(Mem, states[i]) = {}

\* What a call returns, as its caller can read it: whether it matched and
\* everything the returned state holds.
Returned(r) == [found |-> r.found, view |-> View(r.M, r.out)]

\* C22: Validate leaves its receiver S as it was: what S holds and what
\* S.Validate() reports are the same after the call as before, the call
\* reports what S.Validate() reported before it, and every Expect*
\* declaration made on S after the call returns what it would have returned
\* before it.
C22_ValidateKeepsReceiver ==
  [][NewCall.op = "Validate" =>
       LET S == states[NewCall.from]
       IN /\ View(MemNext, S) = View(Mem, S)
          /\ Outcome(MemNext, S) = Outcome(Mem, S)
          /\ ~NewCall.err.isNil = Outcome(Mem, S).fails
          /\ ErrorList(MemNext, NewCall.err) = Outcome(Mem, S).entries
          /\ \A d \in Decls :
               /\ Returned(ExpectFlag(MemNext, S, d[1], d[2])) =
                    Returned(ExpectFlag(Mem, S, d[1], d[2]))
               /\ Returned(ExpectOption(MemNext, S, d[1], d[2])) =
                    Returned(ExpectOption(Mem, S, d[1], d[2]))
          /\ Returned(ExpectParamNamed(MemNext, S, Cmd)) =
               Returned(ExpectParamNamed(Mem, S, Cmd))]_vars

\* C22 witness: the state from Load on the one token "v" has been validated
\* twice, and both calls report the one leftover token.
C22_Witness ==
  \E i, j \in 2..Len(states) :
    /\ i < j
    /\ calls[i].op = "Validate" /\ calls[i].from = 1
    /\ calls[j].op = "Validate" /\ calls[j].from = 1
    /\ states[1].args = <<Val>>
    /\ ErrorList(Mem, calls[i].err) = <<NotConsumed(1)>>
    /\ ErrorList(Mem, calls[j].err) = <<NotConsumed(1)>>
    /\ Errors(Mem, states[1]) = <<>>
    /\ Unconsumed(Mem, states[1]) = {1}

\* C25: in every state the consumed sequence is as long as the token
\* sequence, the tokens are those given at construction, and every token
\* consumed in a state is consumed in every state derived from it.
C25_ConsumptionMonotone ==
  \A i \in 1..Len(states) :
    /\ Len(Consumed(Mem, states[i])) = Len(states[i].args)
    /\ states[i].args = states[1].args
    /\ \A a \in Ancestors(i), j \in 1..Len(states[i].args) :
         Consumed(Mem, states[a])[j] => Consumed(Mem, states[i])[j]

\* s is an initial segment of t.
IsPrefix(s, t) == Len(s) <= Len(t) /\ SubSeq(t, 1, Len(s)) = s

\* C26: a param declaration that matches appends to the parameters of its
\* receiver exactly one value, the one token it consumed; the index it
\* returns, and registers for a named param, is the index of that value;
\* every other call leaves the parameters as they are; the entries and the
\* registered indices of the receiver are still there in the returned state.
C26_ParametersAppendOnly ==
  [][LET S == states[NewCall.from]
     IN /\ IF NewCall.op \in ParamOps /\ NewCall.found
           THEN /\ Cardinality(NewCall.bound) = 1
                /\ \A t \in NewCall.bound :
                     /\ NewState.parameters = Append(S.parameters, S.args[t])
                     /\ ~Consumed(Mem, S)[t] /\ Consumed(MemNext, NewState)[t]
                /\ getParam(Mem, S).index = Len(S.parameters)
                /\ NewCall.op \in NamedParamOps =>
                     NewState.namedParameters[NewCall.name] = Len(S.parameters)
           ELSE NewState.parameters = S.parameters
        /\ IsPrefix(S.parameters, NewState.parameters)
        /\ \A n \in DOMAIN S.namedParameters :
             (NewCall.op \in NamedParamOps /\ NewCall.found /\ n = NewCall.name)
               \/ NewState.namedParameters[n] = S.namedParameters[n]]_vars

\* C26 witness: on tokens "v", "-k" two param declarations in a row: the
\* second has appended "-k" after "v" and registered index 1.
C26_Witness ==
  \E i \in 2..Len(states) :
    /\ calls[i].op = "ExpectParamNamed" /\ calls[i].found
    /\ calls[i].from > 1 /\ calls[calls[i].from].op \in ParamOps
    /\ states[calls[i].from].parameters = <<Val>>
    /\ states[i].parameters = <<Val, Dash \o K>>
    /\ states[i].namedParameters[Cmd] = 1

\* Everything the presence and value accessors return on the state s.
Reads(s) ==
  [HasFlag |-> [n \in Names |-> HasFlag(s, n)],
   HasOption |-> [n \in Names |-> HasOption(s, n)],
   HasParamAt |-> [k \in 0..MaxLen |-> HasParamAt(s, k)],
   HasParamNamed |-> [n \in ParamNames |-> HasParamNamed(s, n)],
   Flag |-> [n \in Names |-> Flag(s, n)],
   Option |-> [n \in Names |-> Option(s, n)],
   ParamAt |-> [k \in 0..MaxLen |-> ParamAt(s, k)],
   ParamNamed |-> [n \in ParamNames |-> ParamNamed(s, n)]]

\* C27: no call changes what the accessors return on a state the caller
\* already holds.  The maps and the parameters a state reads are allocated
\* together with its consumed array (by Load and by clone, nowhere else), so
\* two states with the same consumed array read the same maps: a call whose
\* result keeps the consumed array of its receiver has written nothing to
\* them.  A state is a value whose maps and parameters are held by value,
\* so an earlier state that is left as it was reads as it did.
C27_AccessorsStable ==
  [][/\ SubSeq(states', 1, Len(states)) = states
     /\ LET from == states[NewCall.from]
        IN NewState.consumed = from.consumed =>
             /\ Bindings(NewState) = Bindings(from)
             /\ Reads(NewState) = Reads(from)]_vars

\* C27 witness: AllowFlag(k) has matched "-k"; a later ExpectOption on the
\* returned state has matched nothing and shares its maps; the flag still
\* reads true on both.
C27_Witness ==
  \E i, j \in 2..Len(states) :
    /\ calls[i].op = "AllowFlag" /\ calls[i].name = K /\ calls[i].found
    /\ calls[j].op = "ExpectOption" /\ calls[j].from = i /\ ~calls[j].found
    /\ states[j].consumed = states[i].consumed
    /\ Flag(states[i], K) = [value |-> TRUE, err |-> NilError]
    /\ Flag(states[j], K) = [value |-> TRUE, err |-> NilError]

\* The unconsumed tokens of s that stand for the name n: any for a flag,
\* those with a token after them for an option.
NameTokens(M, s, n, option) ==
  {j \in Unconsumed(M, s) :
     s.args[j] = Dashed(n) /\ (option => j < Len(s.args))}

\* C30: names come before positions: the token a flag or option declaration
\* consumes is the leftmost unconsumed token of the first of its names
\* (primary, then the alternates as declared) that has one, and no other
\* token but, for an option, the value after it; a token of a later name
\* stays unconsumed, also when it is further left.
C30_NamesBeforePositions ==
  [][NewCall.op \in FlagOps \cup OptionOps =>
       LET S == states[NewCall.from]
           names == <<NewCall.name>> \o NewCall.alts
           option == NewCall.op \in OptionOps
           tokens(k) == NameTokens(Mem, S, names[k], option)
           having == {k \in 1..Len(names) : tokens(k) # {}}
       IN IF having = {}
          THEN NewCall.bound = {} /\ ~NewCall.found
          ELSE LET k == CHOOSE x \in having : \A y \in having : x <= y
                   t == CHOOSE x \in tokens(k) : \A y \in tokens(k) : x <= y
               IN /\ NewCall.found
                  /\ NewCall.bound = IF option THEN {t, t + 1} ELSE {t}
                  /\ Unconsumed(MemNext, NewState) =
                       Unconsumed(Mem, S) \ NewCall.bound]_vars

\* The call of a free function or constructor made by the step.
NewResult == results'[Len(results')]

\* The list args without the arguments at the indices of the set gone.
Without(args, gone) == InOrder(args, (1..Len(args)) \ gone)

\* The indices of the arguments of the call r that are the dashed form of
\* one of its names.
Hits(r) ==
  {i \in 1..Len(r.in) :
     \E k \in 1..(1 + Len(r.names)) : r.in[i] = Dashed((<<r.name>> \o r.names)[k])}
Leftmost(S) == CHOOSE x \in S : \A y \in S : x <= y

\* C28: the free function Option, when the leftmost argument with one of the
\* names is the last of the list, returns found = true, an
\* OptionMissingValue error, an empty value and the list it was given,
\* unchanged; when no argument has one of the names it returns found =
\* false, no error, and the list it was given.
C28_OptionMissingValue ==
  [][NewResult.op = "Option" =>
       LET r == NewResult
       IN /\ (Hits(r) # {} /\ Leftmost(Hits(r)) = Len(r.in)) =>
               /\ r.found
               /\ r.err = OptionMissingValue(r.in[Len(r.in)])
               /\ r.err # NilError
               /\ r.value = <<>>
               /\ r.out = r.in /\ r.kept = r.in
          /\ Hits(r) = {} =>
               /\ ~r.found /\ r.err = NilError /\ r.value = <<>>
               /\ r.out = r.in /\ r.kept = r.in]_vars

\* C28 witness: Option on "v", "--key" with the names key, id, k has
\* returned found with the error and the two arguments.
C28_Witness ==
  \E i \in 1..Len(results) :
    /\ results[i].op = "Option" /\ results[i].name = Key
    /\ results[i].in = <<Val, DashDash \o Key>>
    /\ results[i].found
    /\ results[i].err = <<"Option", <<"-", "-", "k", "e", "y">>, "has no value">>
    /\ results[i].out = <<Val, DashDash \o Key>>

\* C29 as stated: Param returns the list without its first argument, Flag
\* without the leftmost matching argument, Option without the leftmost
\* matching argument and the value after it, the other arguments in their
\* order; when nothing matches the list is returned as it was.
C29_MatchedRemoved ==
  [][LET r == NewResult
     IN /\ r.op = "Param" =>
             r.out = (IF r.in = <<>> THEN r.in ELSE Without(r.in, {1}))
        /\ r.op = "Flag" =>
             r.out = (IF Hits(r) = {} THEN r.in
                      ELSE Without(r.in, {Leftmost(Hits(r))}))
        /\ r.op = "Option" =>
             r.out = (IF Hits(r) = {} THEN r.in
                      ELSE Without(r.in, {Leftmost(Hits(r)), Leftmost(Hits(r)) + 1}))]_vars

\* C29 amended: as stated, but Option returns the list as it was also when
\* the leftmost matching argument is the last one (found, with no value):
\* the matching argument is then not removed.
C29_MatchedRemovedButLast ==
  [][LET r == NewResult
     IN /\ r.op = "Param" =>
             /\ r.found <=> r.in # <<>>
             /\ r.out = (IF r.in = <<>> THEN r.in ELSE Without(r.in, {1}))
             /\ r.found => r.value = r.in[1]
        /\ r.op = "Flag" =>
             /\ r.found <=> Hits(r) # {}
             /\ r.out = (IF Hits(r) = {} THEN r.in
                         ELSE Without(r.in, {Leftmost(Hits(r))}))
        /\ r.op = "Option" =>
             /\ r.found <=> Hits(r) # {}
             /\ r.out = (IF Hits(r) = {} \/ Leftmost(Hits(r)) = Len(r.in) THEN r.in
                         ELSE Without(r.in, {Leftmost(Hits(r)), Leftmost(Hits(r)) + 1}))
             /\ (Hits(r) # {} /\ Leftmost(Hits(r)) < Len(r.in)) =>
                  r.value = r.in[Leftmost(Hits(r)) + 1]]_vars

\* C29 witness: Option(k) has taken "-k", "v" out of "-k", "v", "--key" and
\* Flag(key, id, k) on the returned list has taken "--key", leaving nothing.
C29_Witness ==
  \E i, j \in 1..Len(results) :
    /\ results[i].op = "Option" /\ results[i].name = K
    /\ results[i].in = <<Dash \o K, Val, DashDash \o Key>>
    /\ results[i].value = Val
    /\ results[i].out = <<DashDash \o Key>>
    /\ results[j].op = "Flag" /\ results[j].from = i + 1
    /\ results[j].in = results[i].out
    /\ results[j].found /\ results[j].out = <<>>

\* C23: the state a constructor builds from a token list holds the caller's
\* tokens in the same order, all unconsumed, with no flags, options,
\* parameters, named parameters or errors, and the caller's list reads the
\* same after the construction as before.
C23_InitialState ==
  [][LET r == NewResult
     IN /\ r.built.args = r.in
        /\ r.caller = r.in
        /\ r.op = "Load" =>
             /\ r.built.consumed = [i \in 1..Len(r.in) |-> FALSE]
             /\ r.built.errors = <<>>
             /\ r.built.flags = EmptyMap /\ r.built.options = EmptyMap
             /\ r.built.parameters = <<>> /\ r.built.namedParameters = EmptyMap
        /\ r.op = "Args" =>
             r.built.processors = [i \in 1..Len(r.in) |-> "nil"]]_vars

\* C24: when every declaration of a chain of Expect* calls has found its
\* token and every token is consumed, Validate returns no error, and on the
\* state it returns each accessor gives the token its declaration bound: the
\* param at its position, the named param under its name, the flag true, the
\* option the token after its name.
C24_AllFoundValidates ==
  [][(/\ NewCall.op = "Validate"
      /\ \A j \in 2..Len(calls) : calls[j].op \in ExpectOps /\ calls[j].found
      /\ Unconsumed(Mem, states[NewCall.from]) = {}) =>
       /\ NewCall.err.isNil
       /\ \A j \in 2..Len(calls) :
            LET c == calls[j]
                at == Len(states[c.from].parameters)
                read(t) == [value |-> NewState.args[t], err |-> NilError]
            IN /\ c.op = "ExpectParam" =>
                    \E t \in c.bound : ParamAt(NewState, at) = read(t)
               /\ c.op = "ExpectParamNamed" =>
                    \E t \in c.bound :
                      /\ ParamAt(NewState, at) = read(t)
                      /\ ParamNamed(NewState, c.name) = read(t)
               /\ c.op = "ExpectFlag" =>
                    /\ c.bound # {}
                    /\ Flag(NewState, c.name) = [value |-> TRUE, err |-> NilError]
               /\ c.op = "ExpectOption" =>
                    /\ Cardinality(c.bound) = 2
                    /\ Option(NewState, c.name) = read(Highest(c.bound))]_vars

\* C24 witness: the chain of TestMultipleArguments on its seven arguments,
\* validated without error, with the five values of the test.
C24_Witness ==
  /\ Len(states) = 7
  /\ states[1].args = MultipleArguments
  /\ [j \in 2..7 |-> calls[j].op] =
       [j \in 2..7 |-> <<"ExpectParam", "ExpectParamNamed", "ExpectFlag",
                         "ExpectOption", "ExpectOption", "Validate">>[j - 1]]
  /\ calls[5].name = And /\ calls[6].name = Verbose /\ calls[6].alts = <<V>>
  /\ calls[7].err.isNil
  /\ ParamAt(states[7], 0) = [value |-> <<"d", "o">>, err |-> NilError]
  /\ ParamNamed(states[7], Command) = [value |-> Something, err |-> NilError]
  /\ Flag(states[7], Carefully) = [value |-> TRUE, err |-> NilError]
  /\ Option(states[7], And) = [value |-> Slowly, err |-> NilError]
  /\ Option(states[7], Verbose) = [value |-> ThatMeansVerbose, err |-> NilError]

\* The names of the call c, and the tokens it matched as a name: every
\* token a flag call marked, the first of the two an option call marked.
CallNames(c) == {c.name} \cup {c.alts[k] : k \in 1..Len(c.alts)}
MatchedTokens(c) ==
  IF c.op \in FlagOps THEN c.bound ELSE {i \in c.bound : i + 1 \in c.bound}

\* C31: a flag or option declaration matches a token only when the token is
\* exactly the dashed form of one of its names: "-" + name for a name of one
\* character, "--" + name for a longer one.
C31_DashRule ==
  [][NewCall.op \in FlagOps \cup OptionOps =>
       \A i \in MatchedTokens(NewCall) :
         \E n \in CallNames(NewCall) : NewState.args[i] = Dashed(n)]_vars

\* The chain to entry i has a Chop, ChopSlice or ChopString call.
Chopped(i) == \E j \in Ancestors(i) : calls[j].op \in {"Chop", "ChopSlice", "ChopString"}

\* C32: the state Chop, ChopSlice or ChopString returns has every token
\* consumed, and so has every state of the chain after it.  A declaration
\* made there finds nothing: it marks no token, the options, parameters and
\* named parameters stay as they were, a declared flag reads false, and an
\* Expect* call appends its error, so that Validate on the state it returns
\* fails.
C32_NothingAfterChop ==
  [][Chopped(NewCall.from) =>
       LET S == states[NewCall.from]
       IN /\ Unconsumed(Mem, S) = {}
          /\ Unconsumed(MemNext, NewState) = {}
          /\ NewCall.op \in DeclOps =>
               /\ ~NewCall.found /\ NewCall.bound = {}
               /\ NewState.options = S.options
               /\ NewState.parameters = S.parameters
               /\ NewState.namedParameters = S.namedParameters
          /\ NewCall.op \in FlagOps =>
               Flag(NewState, NewCall.name) = [value |-> FALSE, err |-> NilError]
          /\ NewCall.op \in ExpectOps =>
               /\ Errors(MemNext, NewState) =
                    Append(Errors(Mem, S), ExpectError(NewCall))
               /\ LET o == Outcome(MemNext, NewState)
                  IN /\ o.fails
                     /\ \E k \in 1..Len(o.entries) :
                          o.entries[k] = ExpectError(NewCall)]_vars

\* C32 witness: "-k" "v" is chopped unparsed, and ExpectOption(k) on the
\* returned state finds nothing and makes Validate fail.
C32_Witness ==
  /\ Len(states) = 3
  /\ states[1].args = <<Dash \o K, Val>>
  /\ calls[2].op = "Chop" /\ calls[2].from = 1
  /\ calls[3].op = "ExpectOption" /\ calls[3].from = 2 /\ calls[3].name = K
  /\ ~calls[3].found
  /\ ~HasOption(states[3], K)
  /\ Errors(Mem, states[3]) = <<OptionNotFound(K)>>
  /\ Outcome(Mem, states[3]).fails

\* C33: ChopAndValidate returns what Validate returns on the state Chop
\* returns; its error is non-nil exactly when an earlier Expect* call of the
\* chain failed, and then the aggregate lists the errors of those calls and
\* no leftover entry.
C33_ChopAndValidateAsChopThenValidate ==
  [][NewCall.op = "ChopAndValidate" =>
       LET S == states[NewCall.from]
           c == Chop(Mem, S)
           v == Validate(c.M, c.out)
           failed == calls[NewCall.from].failed
       IN /\ View(MemNext, NewState) = View(v.M, v.out)
          /\ ErrorList(MemNext, NewCall.err) = ErrorList(v.M, v.err)
          /\ ~NewCall.err.isNil <=> failed # <<>>
          /\ failed # <<>> => ErrorList(MemNext, NewCall.err) = failed]_vars

\* C36: the state Validate returns has the errors of the state it was called
\* on: validating it again reports the same entries as the first Validate
\* did, and when the first Validate failed for leftover tokens only, Chop
\* and then Validate on the returned state succeeds.
C36_ValidateAddsNoError ==
  [][NewCall.op = "Validate" =>
       LET S == states[NewCall.from]
           again == Validate(MemNext, NewState)
           c == Chop(MemNext, NewState)
           chopped == Validate(c.M, c.out)
       IN /\ Errors(MemNext, NewState) = Errors(Mem, S)
          /\ ErrorList(again.M, again.err) = ErrorList(MemNext, NewCall.err)
          /\ Errors(Mem, S) = <<>> => chopped.err.isNil]_vars

\* C34: a declaration that finds no match marks no token and binds nothing:
\* the returned state has the markers, options, parameters and named
\* parameters of the receiver; its flags are those of the receiver, with the
\* declared name set to false for a flag declaration; its errors are those
\* of the receiver, followed by one error for an Expect* declaration.
C34_NoMatchNoEffect ==
  [][(NewCall.op \in DeclOps /\ ~NewCall.found) =>
       LET S == states[NewCall.from]
       IN /\ NewCall.bound = {}
          /\ NewState.args = S.args
          /\ Consumed(MemNext, NewState) = Consumed(Mem, S)
          /\ NewState.options = S.options
          /\ NewState.parameters = S.parameters
          /\ NewState.namedParameters = S.namedParameters
          /\ NewState.flags = IF NewCall.op \in FlagOps
                              THEN MapPut(S.flags, NewCall.name, FALSE)
                              ELSE S.flags
          /\ Errors(MemNext, NewState) =
               Errors(Mem, S) \o (IF NewCall.op \in ExpectOps
                                  THEN <<ExpectError(NewCall)>> ELSE <<>>)]_vars

\* C34 witness: on "v", AllowOption(k) and then ExpectFlag(k) find nothing:
\* "v" stays unconsumed, no option is recorded, the flag k reads false and
\* the one error is ExpectFlag's.
C34_Witness ==
  /\ Len(states) = 3
  /\ states[1].args = <<Val>>
  /\ calls[2].op = "AllowOption" /\ calls[2].from = 1 /\ calls[2].name = K
  /\ calls[3].op = "ExpectFlag" /\ calls[3].from = 2 /\ calls[3].name = K
  /\ ~calls[2].found /\ ~calls[3].found
  /\ Unconsumed(Mem, states[3]) = {1}
  /\ states[3].options = EmptyMap /\ states[3].parameters = <<>>
  /\ Flag(states[3], K) = [value |-> FALSE, err |-> NilError]
  /\ Errors(Mem, states[2]) = <<>>
  /\ Errors(Mem, states[3]) = <<FlagNotFound(K)>>

\* The unconsumed tokens of s that are the dashed form of the name of the
\* call c or of one of its alternates.
FlagTokens(M, s, c) ==
  {i \in Unconsumed(M, s) : \E n \in CallNames(c) : s.args[i] = Dashed(n)}

\* C35: a flag declaration made when no token for its names is unconsumed
\* returns a state where the flag reads false, also when an earlier
\* declaration of the same name had matched and the receiver reads true
\* (ExpectFlag appends its error as well); an option declaration that finds
\* no match returns a state where the option reads what it read on the
\* receiver.
C35_FlagReadsLastDeclaration ==
  [][LET S == states[NewCall.from]
     IN /\ (NewCall.op \in FlagOps /\ FlagTokens(Mem, S, NewCall) = {}) =>
             /\ ~NewCall.found
             /\ Flag(NewState, NewCall.name) = [value |-> FALSE, err |-> NilError]
             /\ NewCall.op = "ExpectFlag" =>
                  Errors(MemNext, NewState) =
                    Append(Errors(Mem, S), FlagNotFound(NewCall.name))
        /\ (NewCall.op \in OptionOps /\ ~NewCall.found) =>
             /\ HasOption(NewState, NewCall.name) <=> HasOption(S, NewCall.name)
             /\ Option(NewState, NewCall.name) = Option(S, NewCall.name)]_vars

\* C35 witness: on "-k", ExpectFlag(k) has matched and reads true; the same
\* declaration made again on the returned state reads false and has
\* appended its error.
C35_Witness ==
  /\ Len(states) = 3
  /\ states[1].args = <<Dash \o K>>
  /\ calls[2].op = "ExpectFlag" /\ calls[2].from = 1 /\ calls[2].name = K
  /\ calls[3].op = "ExpectFlag" /\ calls[3].from = 2 /\ calls[3].name = K
  /\ calls[2].found /\ calls[2].bound = {1}
  /\ Flag(states[2], K) = [value |-> TRUE, err |-> NilError]
  /\ Flag(states[3], K) = [value |-> FALSE, err |-> NilError]
  /\ Errors(Mem, states[3]) = <<FlagNotFound(K)>>

\* The indices given to HasParamAt and ParamAt: negative ones, those of the
\* parameters, and one past the longest list.
Indices == -2..(MaxLen + 1)

\* C37: for every index i, negative ones included, HasParamAt(i) is true
\* exactly when ParamAt(i) returns the i-th parameter with no error and no
\* run-time failure, and false exactly when ParamAt(i) returns its error.
C37_HasParamAtGuardsParamAt ==
  \A i \in Indices :
    LET s == states[Newest]
        r == ParamAt(s, i)
    IN /\ HasParamAt(s, i) <=> r.err = NilError
       /\ ~HasParamAt(s, i) <=> r.err = NoParameterAt(i)
       /\ HasParamAt(s, i) => r.value = s.parameters[i + 1]

\* C38: OptionInt, when the leftmost argument with one of the names is
\* followed by a value that does not parse as an integer, returns an error
\* and the list it was given, which reads as before the call; when the
\* value parses it returns the integer, no error, and the list without the
\* name and the value.
C38_OptionIntErrorKeepsList ==
  [][NewResult.op = "OptionInt" =>
       LET r == NewResult
           i == Leftmost(Hits(r))
       IN (Hits(r) # {} /\ i < Len(r.in)) =>
            /\ r.found
            /\ ParseInt(r.in[i + 1]).err # NilError =>
                 /\ r.err = ParseInt(r.in[i + 1]).err
                 /\ r.out = r.in /\ r.kept = r.in
            /\ ParseInt(r.in[i + 1]).err = NilError =>
                 /\ r.err = NilError
                 /\ r.value = ParseInt(r.in[i + 1]).value
                 /\ r.out = Without(r.in, {i, i + 1})]_vars

====
